---------------------------- MODULE Spec2Model ----------------------------
(***************************************************************************)
(* D-MoneyCare: transaction risk scoring, risk profiling and the           *)
(* transaction-ingestion endpoint.                                         *)
(*                                                                         *)
(* Data representation                                                     *)
(*   - a timestamp is a whole number of hours; getHours() is ts % 24       *)
(*   - a decimal string (amount, avgMonthlySpending) is a TLA+ string;     *)
(*     parseFloat is the table DecimalValue, NaN for any other string      *)
(*   - numbers are exact integers, NaN is a value of its own; every        *)
(*     comparison with NaN is false and every sum with NaN is NaN          *)
(*   - a location string is the set of its whitespace-separated words,     *)
(*     null and "" are the empty set                                       *)
(*   - merchant and description are the sets of markers their text holds:  *)
(*     "keyword" (one of HIGH_RISK_KEYWORDS), "online" (온라인/인터넷/전화)  *)
(*     and "unknown" (알수없음/미확인); null is the empty set                *)
(***************************************************************************)
EXTENDS Integers, Sequences, FiniteSets, TLC

VARIABLES
    now,             \* wall clock (Date.now()), in hours
    patients,        \* table patients: id -> row
    transactions,    \* table transactions: sequence of rows, id = index
    alerts,          \* table alerts: sequence of rows, id = index
    riskAssessments, \* table risk_assessments: sequence of rows, insertion order
    alertSettings,   \* table alert_settings: patient id -> row
    reqs,            \* POST /api/patients/:id/transactions requests in flight
    candidate,       \* detectAnomaly: argument transaction
    history,         \* detectAnomaly: argument recentTransactions
    avgSpending,     \* detectAnomaly: argument patientAvgSpending
    anomaly,         \* detectAnomaly: result of the call
    subject,         \* assessRisk: argument patient
    supplied,        \* assessRisk: argument recentTransactions
    callTimes,       \* assessRisk: wall-clock times of the calls made
    profiles,        \* assessRisk: results of the calls made
    score,           \* a score in 0..100 given to the scalar mappings
    mapped,          \* results of the scalar mappings for score
    alertAmount,     \* shouldSendImmediateAlert: argument transactionAmount
    settings,        \* shouldSendImmediateAlert: argument alertSettings
    decision,        \* results of the alert policy for score
    activity,        \* GET /api/activity: the responses sent
    riskViews        \* GET /api/patients, GET /api/patients/:id/risk-assessment: responses

ingestVars == <<patients, transactions, alerts, riskAssessments, alertSettings, reqs>>
detectVars == <<candidate, history, avgSpending, anomaly>>
assessVars == <<subject, supplied, callTimes, profiles>>
scalarVars == <<score, mapped>>
policyVars == <<alertAmount, settings, decision>>
readVars == <<activity, riskViews>>
pureVars == <<detectVars, assessVars, scalarVars, policyVars, readVars>>
vars == <<now, ingestVars, pureVars>>

----------------------------------------------------------------------------
(* Numbers *)

\* IEEE not-a-number: parseFloat of a non-numeric string, 0/0.  The amounts of
\* the model are multiples of 10000 and its scores are small, so no number the
\* program computes is this one.
NaN == -999999

IsNaN(x) == x = NaN

\* x > y and x >= y on numbers: false when either side is NaN
Gt(x, y) == ~IsNaN(x) /\ ~IsNaN(y) /\ x > y
Ge(x, y) == ~IsNaN(x) /\ ~IsNaN(y) /\ x >= y

\* x + y on numbers
Plus(x, y) == IF IsNaN(x) \/ IsNaN(y) THEN NaN ELSE x + y

\* Math.min(x, y)
MathMin(x, y) == IF IsNaN(x) \/ IsNaN(y) THEN NaN ELSE IF x < y THEN x ELSE y

\* Math.round(p / q) for q > 0: the nearest integer, a tie going up
RoundDiv(p, q) == (2 * p + q) \div (2 * q)

\* the decimal strings the model uses, with their numeric value in won
DecimalValue ==
    ("-90000" :> -90000) @@ ("0" :> 0) @@ ("10000" :> 10000) @@ ("90000" :> 90000) @@ ("100000" :> 100000)
    @@ ("500000" :> 500000) @@ ("900000" :> 900000) @@ ("1200000" :> 1200000)
    @@ ("3000000" :> 3000000)

\* parseFloat(s)
parseFloat(s) == IF s \in DOMAIN DecimalValue THEN DecimalValue[s] ELSE NaN

\* getHours() of a timestamp
getHours(ts) == ts % 24

HoursPerDay == 24
HoursPerWeek == 168

\* String.prototype.toLowerCase on one word
toLowerCase(w) == IF w = "Seoul" THEN "seoul" ELSE IF w = "Busan" THEN "busan" ELSE w

\* the sum of parseFloat of the amounts of txs[lo..hi]; the amounts are whole
\* numbers that doubles add exactly and NaN absorbs, so the sum of the two halves
\* is the left-to-right sum
RECURSIVE SumRange(_, _, _)
SumRange(txs, lo, hi) ==
    IF lo > hi THEN 0
    ELSE IF lo = hi THEN Plus(0, parseFloat(txs[lo].amount))
    ELSE LET mid == (lo + hi) \div 2
         IN  Plus(SumRange(txs, lo, mid), SumRange(txs, mid + 1, hi))

\* amounts.reduce((a, b) => a + b, 0) over parseFloat of each amount
SumAmounts(txs) == SumRange(txs, 1, Len(txs))

\* the indices of the rows of txs whose timestamp is >= since
Since(txs, since) == {i \in 1..Len(txs) : txs[i].timestamp >= since}

----------------------------------------------------------------------------
(* AnomalyDetectionService *)

AnomalyThreshold == 30
ScoreCap == 100

\* analyzeAmount that stops at the first rule that fires
analyzeAmountFirstRule(amount, avg, recentTransactions) ==
    LET transactionAmount == parseFloat(amount)
    IN  IF Gt(avg, 0) /\ Gt(transactionAmount, 3 * avg) THEN 40
        ELSE IF Gt(avg, 0) /\ Gt(transactionAmount, 2 * avg) THEN 25
        ELSE IF Ge(transactionAmount, 1000000) THEN 35
        ELSE IF Ge(transactionAmount, 500000) THEN 20 ELSE 0

\* amount against the personal average, the recent average and absolute limits
analyzeAmount(amount, avg, recentTransactions) ==
    LET transactionAmount == parseFloat(amount)
        personal ==
            IF Gt(avg, 0)
            THEN IF Gt(transactionAmount, 3 * avg) THEN 40
                 ELSE IF Gt(transactionAmount, 2 * avg) THEN 25 ELSE 0
            ELSE 0
        n == Len(recentTransactions)
        total == SumAmounts(recentTransactions)
        \* ratio > k for ratio = transactionAmount / (total / n); a zero average
        \* gives Infinity for a positive amount, -Infinity for a negative one and
        \* NaN for a zero amount
        ratioOver(k) ==
            IF total > 0 THEN transactionAmount * n > k * total
            ELSE IF total = 0 THEN transactionAmount > 0
            ELSE transactionAmount * n < k * total
        recent ==
            IF n > 0 /\ ~IsNaN(total) /\ ~IsNaN(transactionAmount)
            THEN IF ratioOver(5) THEN 30
                 ELSE IF ratioOver(3) THEN 20 ELSE 0
            ELSE 0
        absolute ==
            IF Ge(transactionAmount, 1000000) THEN 35
            ELSE IF Ge(transactionAmount, 500000) THEN 20 ELSE 0
    IN  personal + recent + absolute

\* transactions of the history in the 24 hours before the candidate
analyzeFrequency(transaction, recentTransactions) ==
    LET last24Hours == transaction.timestamp - HoursPerDay
        inWindow == Since(recentTransactions, last24Hours)
        recentCount == Cardinality(inWindow)
        atmCount == Cardinality({i \in inWindow : recentTransactions[i].type = "ATM"})
        count == IF recentCount >= 5 THEN 30 ELSE IF recentCount >= 3 THEN 15 ELSE 0
        atm == IF transaction.type = "ATM" /\ atmCount >= 3 THEN 25 ELSE 0
    IN  count + atm

\* late night or very early morning
analyzeTime(timestamp) ==
    LET hour == getHours(timestamp)
    IN  IF hour >= 23 \/ hour <= 6 THEN 20 ELSE 0

\* keywords of merchant and description
analyzeMerchant(merchant, description) ==
    LET text == merchant \cup description
        keyword == IF "keyword" \in text THEN 25 ELSE 0
        online == IF "online" \in text THEN 15 ELSE 0
        unknown == IF "unknown" \in merchant THEN 20 ELSE 0
    IN  keyword + online + unknown

\* two locations share a word, case-insensitively
isSimilarLocation(loc1, loc2) ==
    \E w1 \in loc1, w2 \in loc2 : toLowerCase(w1) = toLowerCase(w2)

IsSet(loc) == loc # {}

\* recentTransactions.map(t => t.location).filter(Boolean).slice(0, 10)
recentLocations(recentTransactions) ==
    LET withLocation == SelectSeq(recentTransactions, LAMBDA t : IsSet(t.location))
    IN  SubSeq(withLocation, 1, IF Len(withLocation) < 10 THEN Len(withLocation) ELSE 10)

\* a location unlike each of the last locations
analyzeLocation(location, recentTransactions) ==
    LET recent == recentLocations(recentTransactions)
    IN  IF ~IsSet(location) THEN 0
        ELSE IF Len(recent) > 0
                /\ ~\E i \in 1..Len(recent) : isSimilarLocation(location, recent[i].location)
             THEN 15
             ELSE 0

\* the sum of the five partial scores, before the cap
partialSum(transaction, recentTransactions, patientAvgSpending) ==
    analyzeAmount(transaction.amount, patientAvgSpending, recentTransactions)
    + analyzeFrequency(transaction, recentTransactions)
    + analyzeTime(transaction.timestamp)
    + analyzeMerchant(transaction.merchant, transaction.description)
    + analyzeLocation(transaction.location, recentTransactions)

\* capScore without the cap
capScoreMissing(riskScore) == riskScore

\* the cap of the risk score
capScore(riskScore) == MathMin(riskScore, ScoreCap)

\* isAnomalous with the threshold itself left out
isAnomalousStrict(riskScore) == riskScore > AnomalyThreshold

\* the anomaly flag of a capped risk score
isAnomalous(riskScore) == riskScore >= AnomalyThreshold

\* detectAnomaly(transaction, recentTransactions, patientAvgSpending), without
\* the reasons
detectAnomaly(transaction, recentTransactions, patientAvgSpending) ==
    LET riskScore == capScore(partialSum(transaction, recentTransactions, patientAvgSpending))
    IN  [isAnomaly |-> isAnomalous(riskScore), riskScore |-> riskScore]

\* AnomalyDetectionService.calculateRiskFactors(patientId, recentTransactions),
\* called at wall-clock time at
AnomalyDetection_calculateRiskFactors(recentTransactions, at) ==
    LET last7Days == at - HoursPerWeek
        week == Since(recentTransactions, last7Days)
        n == Cardinality(week)
        weekTransactions == SelectSeq(recentTransactions, LAMBDA t : t.timestamp >= last7Days)
        \* Math.min(n / 7 * 20, 100)
        frequencyScore == IF 20 * n >= 7 * 100 THEN 100 ELSE RoundDiv(20 * n, 7)
        total == SumAmounts(weekTransactions)
        \* Math.min(avgAmount / 10000, 100), avgAmount = total / n or 0
        amountScore ==
            IF n = 0 THEN 0
            ELSE IF IsNaN(total) THEN NaN
            ELSE IF total >= 100 * 10000 * n THEN 100
            ELSE RoundDiv(total, 10000 * n)
        night == Cardinality({i \in week :
                    LET hour == getHours(recentTransactions[i].timestamp)
                    IN  hour >= 23 \/ hour <= 6})
        \* (night / n) * 100 with no guard: 0 / 0 is NaN
        timingScore == IF n = 0 THEN NaN ELSE RoundDiv(100 * night, n)
        uniqueLocations ==
            {recentTransactions[i].location : i \in week} \ {{}}
        size == Cardinality(uniqueLocations)
        locationScore == IF size * 15 >= 100 THEN 100 ELSE size * 15
    IN  [frequencyScore |-> frequencyScore, amountScore |-> amountScore,
         timingScore |-> timingScore, locationScore |-> locationScore]

----------------------------------------------------------------------------
(* RiskProfilingService *)

\* the risk levels 고위험, 중위험, 저위험 and the alert type 긴급
HighRisk == "HIGH_RISK"
MediumRisk == "MEDIUM_RISK"
LowRisk == "LOW_RISK"
Urgent == "URGENT"

\* the dementia stages 경도, 중등도, 중증
Mild == "mild"
Moderate == "moderate"
Severe == "severe"

\* patient.avgMonthlySpending || "0"
orZero(decimal) == IF decimal = "" THEN "0" ELSE decimal

\* frequencyBucket with the bucket edges counted into the higher bucket
frequencyBucketInclusive(n) ==
    IF n >= 5 * 7 THEN 85
    ELSE IF n >= 3 * 7 THEN 60
    ELSE IF n >= 2 * 7 THEN 35
    ELSE 15

\* the frequency score of n transactions in the week: dailyTransactionCount =
\* n / 7 against 5, 3 and 2
frequencyBucket(n) ==
    IF n > 5 * 7 THEN 85
    ELSE IF n > 3 * 7 THEN 60
    ELSE IF n > 2 * 7 THEN 35
    ELSE 15

\* the four factor scores before the dementia multiplier, at wall-clock time at
baseRiskFactors(patient, recentTransactions, at) ==
    LET last7Days == at - HoursPerWeek
        week == Since(recentTransactions, last7Days)
        n == Cardinality(week)
        weekTransactions == SelectSeq(recentTransactions, LAMBDA t : t.timestamp >= last7Days)
        frequencyScore == frequencyBucket(n)
        totalWeeklyAmount == SumAmounts(weekTransactions)
        avgMonthlySpending == parseFloat(orZero(patient.avgMonthlySpending))
        \* weeklyRatio = totalWeeklyAmount * 4 / avgMonthlySpending against 3, 2, 1.5
        amountScore ==
            IF Gt(avgMonthlySpending, 0)
            THEN IF Gt(4 * totalWeeklyAmount, 3 * avgMonthlySpending) /\ ~IsNaN(totalWeeklyAmount) THEN 85
                 ELSE IF Gt(4 * totalWeeklyAmount, 2 * avgMonthlySpending) /\ ~IsNaN(totalWeeklyAmount) THEN 60
                 ELSE IF Gt(8 * totalWeeklyAmount, 3 * avgMonthlySpending) /\ ~IsNaN(totalWeeklyAmount) THEN 40
                 ELSE 20
            ELSE IF Gt(totalWeeklyAmount, 1000000) THEN 80
                 ELSE IF Gt(totalWeeklyAmount, 500000) THEN 50
                 ELSE 20
        night == Cardinality({i \in week :
                    LET hour == getHours(recentTransactions[i].timestamp)
                    IN  hour >= 22 \/ hour <= 7})
        timingScore == IF n > 0 THEN RoundDiv(100 * night, n) ELSE 0
        uniqueLocations == {recentTransactions[i].location : i \in week} \ {{}}
        size == Cardinality(uniqueLocations)
        locationScore ==
            IF size > 10 THEN 80
            ELSE IF size > 7 THEN 60
            ELSE IF size > 5 THEN 40
            ELSE 20
    IN  [frequency |-> frequencyScore, amount |-> amountScore,
         timing |-> timingScore, location |-> locationScore]

\* getDementiaRiskMultiplier with the moderate stage weighted like the mild one
getDementiaRiskMultiplierFlat(dementiaStage) ==
    IF dementiaStage = "" THEN 10
    ELSE CASE dementiaStage = Mild -> 11
           [] dementiaStage = Moderate -> 11
           [] dementiaStage = Severe -> 15
           [] OTHER -> 10

\* getDementiaRiskMultiplier(dementiaStage), in tenths
getDementiaRiskMultiplier(dementiaStage) ==
    IF dementiaStage = "" THEN 10
    ELSE CASE dementiaStage = Mild -> 11
           [] dementiaStage = Moderate -> 13
           [] dementiaStage = Severe -> 15
           [] OTHER -> 10

\* adjustFactor without the cap at 100
adjustFactorUncapped(baseScore, dementiaStage) ==
    RoundDiv(baseScore * getDementiaRiskMultiplier(dementiaStage), 10)

\* Math.min(Math.round(score * dementiaMultiplier), 100)
adjustFactor(baseScore, dementiaStage) ==
    MathMin(RoundDiv(baseScore * getDementiaRiskMultiplier(dementiaStage), 10), 100)

\* calculateRiskFactors(patient, recentTransactions), called at wall-clock time at
RiskProfiling_calculateRiskFactors(patient, recentTransactions, at) ==
    LET base == baseRiskFactors(patient, recentTransactions, at)
    IN  [frequency |-> adjustFactor(base.frequency, patient.dementiaStage),
         amount |-> adjustFactor(base.amount, patient.dementiaStage),
         timing |-> adjustFactor(base.timing, patient.dementiaStage),
         location |-> adjustFactor(base.location, patient.dementiaStage)]

\* the factors <<frequency, amount, timing, location>>, among those that
\* calculateRiskFactors returns, whose weighted sum is a tie k + 0.5 in exact
\* arithmetic and falls below it in IEEE-754 double arithmetic
TieRoundedDown ==
    { <<20, 26, 8, 26>>, <<20, 26, 16, 78>>, <<20, 26, 48, 26>>, <<20, 26, 62, 52>>,
      <<20, 26, 68, 26>>, <<20, 26, 82, 52>>, <<39, 94, 2, 66>>, <<39, 94, 6, 22>>,
      <<39, 94, 22, 66>>, <<39, 94, 26, 22>>, <<39, 94, 46, 22>>, <<39, 94, 66, 22>>,
      <<46, 26, 16, 26>>, <<46, 26, 96, 26>>, <<46, 65, 12, 26>>, <<46, 65, 26, 52>>,
      <<46, 65, 46, 52>>, <<46, 65, 52, 26>>, <<46, 65, 66, 52>>, <<46, 65, 72, 26>>,
      <<46, 65, 86, 52>>, <<46, 65, 92, 26>>, <<46, 100, 12, 26>>, <<66, 55, 12, 66>>,
      <<66, 55, 32, 66>>, <<66, 55, 36, 22>>, <<66, 55, 52, 66>>, <<66, 55, 56, 22>>,
      <<66, 55, 72, 66>>, <<66, 55, 76, 22>>, <<66, 55, 96, 22>>, <<78, 26, 12, 26>>,
      <<78, 26, 26, 52>>, <<78, 26, 46, 52>>, <<78, 26, 52, 26>>, <<78, 26, 66, 52>>,
      <<78, 26, 72, 26>>, <<78, 26, 86, 52>>, <<78, 26, 92, 26>>, <<78, 65, 22, 52>>,
      <<78, 65, 42, 52>>, <<78, 65, 48, 26>>, <<78, 65, 68, 26>>, <<94, 44, 12, 66>>,
      <<94, 44, 32, 66>>, <<94, 44, 36, 22>>, <<94, 44, 52, 66>>, <<94, 44, 56, 22>>,
      <<94, 44, 76, 22>>, <<94, 44, 96, 22>>, <<94, 94, 14, 44>>, <<94, 94, 34, 44>>,
      <<94, 94, 54, 44>>, <<94, 94, 74, 44>>, <<94, 94, 94, 44>>, <<94, 94, 96, 22>>,
      <<100, 26, 22, 52>>, <<100, 26, 42, 52>>, <<100, 26, 48, 26>>, <<100, 26, 62, 52>>,
      <<100, 26, 68, 26>>, <<100, 26, 82, 52>>, <<100, 26, 88, 26>>, <<100, 52, 12, 26>>,
      <<100, 52, 26, 52>>, <<100, 52, 52, 26>> }

\* calculateTotalScore(factors): Math.round of the weighted sum
calculateTotalScore(factors) ==
    LET exact == RoundDiv(30 * factors.frequency + 40 * factors.amount
                          + 15 * factors.timing + 15 * factors.location, 100)
        key == <<factors.frequency, factors.amount, factors.timing, factors.location>>
    IN  IF key \in TieRoundedDown THEN exact - 1 ELSE exact

\* determineRiskLevel with 70 itself in the middle tier
determineRiskLevelExclusive(totalScore) ==
    IF totalScore > 70 THEN HighRisk
    ELSE IF totalScore >= 40 THEN MediumRisk
    ELSE LowRisk

\* determineRiskLevel(totalScore)
determineRiskLevel(totalScore) ==
    IF totalScore >= 70 THEN HighRisk
    ELSE IF totalScore >= 40 THEN MediumRisk
    ELSE LowRisk

\* generateRecommendations(riskLevel, factors, recentTransactions): the tags of
\* the advisory strings, in order
generateRecommendations(riskLevel, factors, recentTransactions) ==
    LET tier ==
            IF riskLevel = HighRisk
            THEN <<"contact", "restrict">>
                 \o (IF factors.amount > 70 THEN <<"large">> ELSE <<>>)
                 \o (IF factors.frequency > 70 THEN <<"frequent">> ELSE <<>>)
            ELSE IF riskLevel = MediumRisk
            THEN <<"monitor", "review">>
                 \o (IF factors.timing > 50 THEN <<"night">> ELSE <<>>)
            ELSE <<"stable", "weekly">>
        atmTransactions == {i \in 1..Len(recentTransactions) : recentTransactions[i].type = "ATM"}
        anomalies == {i \in 1..Len(recentTransactions) : recentTransactions[i].isAnomaly}
    IN  tier
        \o (IF Cardinality(atmTransactions) > 3 THEN <<"atm">> ELSE <<>>)
        \o (IF Cardinality(anomalies) > 0 THEN <<<<"anomalies", Cardinality(anomalies)>>>> ELSE <<>>)

\* assessRisk(patient, recentTransactions, riskAssessment), called at wall-clock
\* time at; the riskAssessment argument is not read
assessRisk(patient, recentTransactions, at) ==
    LET factors == RiskProfiling_calculateRiskFactors(patient, recentTransactions, at)
        totalScore == calculateTotalScore(factors)
        riskLevel == determineRiskLevel(totalScore)
    IN  [riskLevel |-> riskLevel, totalScore |-> totalScore, factors |-> factors,
         recommendations |-> generateRecommendations(riskLevel, factors, recentTransactions)]

\* getAlertPriority(riskLevel)
getAlertPriority(riskLevel) ==
    CASE riskLevel = HighRisk -> "high"
      [] riskLevel = MediumRisk -> "medium"
      [] OTHER -> "low"

\* alertSettings.threshold || "100000"
orDefaultThreshold(threshold) == IF threshold = "" THEN "100000" ELSE threshold

\* shouldSendImmediateAlert that does not look at immediateAlerts
shouldSendImmediateAlertUngated(riskScore, amount, given) ==
    \/ riskScore >= 70
    \/ Ge(amount, parseFloat(orDefaultThreshold(given.threshold)))

\* shouldSendImmediateAlert(riskScore, transactionAmount, alertSettings); absent
\* settings are a record with exists = FALSE
shouldSendImmediateAlert(riskScore, amount, given) ==
    IF ~given.exists \/ ~given.immediateAlerts THEN FALSE
    ELSE LET threshold == parseFloat(orDefaultThreshold(given.threshold))
         IN  riskScore >= 70 \/ Ge(amount, threshold)

----------------------------------------------------------------------------
(* DatabaseStorage *)

\* the existing patients, and an id no patient has
PatientIds == {1, 2}
MissingPatientId == 3

\* the rows of a table (a sequence) that belong to a patient, in table order
OfPatient(table, patientId) == SelectSeq(table, LAMBDA row : row.patientId = patientId)

\* rows ordered by timestamp, latest first; rows of one timestamp by id, latest
\* first: the place of a row is one more than the number of rows before it
OrderByTimestampDesc(rows) ==
    LET before(a, b) ==
            \/ a.timestamp > b.timestamp
            \/ a.timestamp = b.timestamp /\ a.id > b.id
        place(row) == 1 + Cardinality({other \in rows : before(other, row)})
    IN  [k \in 1..Cardinality(rows) |-> CHOOSE row \in rows : place(row) = k]

\* getTransactions without the limit
getTransactionsUnlimited(txs, patientId, limit) ==
    OrderByTimestampDesc({txs[i] : i \in {j \in 1..Len(txs) : txs[j].patientId = patientId}})

\* getTransactions without the filter on the patient
getTransactionsOfAll(txs, patientId, limit) ==
    LET ordered == OrderByTimestampDesc({txs[i] : i \in 1..Len(txs)})
    IN  SubSeq(ordered, 1, IF Len(ordered) < limit THEN Len(ordered) ELSE limit)

\* getTransactions(patientId, limit) on the table txs
getTransactions(txs, patientId, limit) ==
    LET rows == {txs[i] : i \in {j \in 1..Len(txs) : txs[j].patientId = patientId}}
        ordered == OrderByTimestampDesc(rows)
    IN  SubSeq(ordered, 1, IF Len(ordered) < limit THEN Len(ordered) ELSE limit)

\* getLatestRiskAssessment(patientId): assessmentDate is set at insertion, so the
\* latest row is the last one inserted; <<>> stands for undefined
getLatestRiskAssessment(table, patientId) ==
    LET own == OfPatient(table, patientId)
    IN  IF Len(own) = 0 THEN <<>> ELSE <<own[Len(own)]>>

\* getUnreadAlerts(caregiverId): the ids of the unread alerts
getUnreadAlerts(table) == {i \in 1..Len(table) : ~table[i].isRead}

----------------------------------------------------------------------------
(* POST /api/patients/:id/transactions *)

MaxRequests == 2
StartTime == 2402
RecentLimit == 20

ReqIds == 1..MaxRequests

\* the request bodies at wall-clock time at: a large withdrawal now (at night),
\* 12 hours ago (by day) or 200 hours ago (more than a week), a small one, and
\* a negative amount now at a merchant with a high-risk keyword
\* supplied holds the isAnomaly and riskScore of a body that carries them: the
\* insert schema leaves both columns in, so the parsed body keeps them
Body(amount, timestamp) ==
    [amount |-> amount, type |-> "ATM", location |-> {"seoul"}, merchant |-> {},
     description |-> {}, timestamp |-> timestamp, supplied |-> <<>>]

Supplying(body, isAnomaly, riskScore) ==
    [body EXCEPT !.supplied = <<[isAnomaly |-> isAnomaly, riskScore |-> riskScore]>>]

Bodies(at) ==
    {Supplying(Body("1200000", at), FALSE, 0), Body("1200000", at - 12),
     Body("1200000", at - 200), Supplying(Body("10000", at - 12), TRUE, 99),
     [Body("-90000", at) EXCEPT !.merchant = {"keyword"}]}

NoBody ==
    [amount |-> "0", type |-> "", location |-> {}, merchant |-> {}, description |-> {},
     timestamp |-> 0, supplied |-> <<>>]

NoPatient == [riskLevel |-> "", dementiaStage |-> "", avgMonthlySpending |-> "", exists |-> FALSE]
NoResult == [isAnomaly |-> FALSE, riskScore |-> 0]
NoAssessment ==
    [patientId |-> 0, frequencyScore |-> 0, amountScore |-> 0, timingScore |-> 0,
     locationScore |-> 0, totalScore |-> 0]
NoSettings == [exists |-> FALSE, immediateAlerts |-> FALSE]

IdleRequest ==
    [pc |-> "idle", patientId |-> 0, body |-> NoBody, recentTransactions |-> <<>>,
     patient |-> NoPatient, anomalyResult |-> NoResult, transactionId |-> 0,
     alertSettings |-> NoSettings, alertId |-> 0, assessment |-> NoAssessment,
     newRiskLevel |-> "", status |-> 0]

\* getPatient(id)
getPatient(id) == IF id \in DOMAIN patients THEN patients[id] ELSE NoPatient

\* parseFloat(patient.avgMonthlySpending || "0") / 30: the monthly averages of the
\* model are multiples of 30
dailyAverage(patient) ==
    LET monthly == parseFloat(orZero(patient.avgMonthlySpending))
    IN  IF IsNaN(monthly) THEN NaN ELSE monthly \div 30

\* the alert type of an anomalous risk score
alertTypeOf(riskScore) ==
    IF riskScore >= 70 THEN Urgent ELSE IF riskScore >= 50 THEN HighRisk ELSE MediumRisk

\* alertSeverityOf that hands the alert type to getAlertPriority as it is
alertSeverityOfDirect(alertType) == getAlertPriority(alertType)

\* the severity of an alert of a type
alertSeverityOf(alertType) ==
    getAlertPriority(IF alertType = Urgent THEN HighRisk ELSE alertType)

\* Math.round((frequencyScore + amountScore + timingScore + locationScore) / 4)
ingestTotalScore(riskFactors) ==
    IF \/ IsNaN(riskFactors.frequencyScore) \/ IsNaN(riskFactors.amountScore)
       \/ IsNaN(riskFactors.timingScore) \/ IsNaN(riskFactors.locationScore)
    THEN NaN
    ELSE RoundDiv(riskFactors.frequencyScore + riskFactors.amountScore
                  + riskFactors.timingScore + riskFactors.locationScore, 4)

\* the risk level written to the patient for a total score
ingestRiskLevel(totalScore) ==
    IF Ge(totalScore, 70) THEN HighRisk
    ELSE IF Ge(totalScore, 40) THEN MediumRisk
    ELSE LowRisk

\* the row handed to createRiskAssessment, computed at wall-clock time at
ingestAssessment(patientId, widened, at) ==
    LET riskFactors == AnomalyDetection_calculateRiskFactors(widened, at)
    IN  [patientId |-> patientId,
         frequencyScore |-> riskFactors.frequencyScore,
         amountScore |-> riskFactors.amountScore,
         timingScore |-> riskFactors.timingScore,
         locationScore |-> riskFactors.locationScore,
         totalScore |-> ingestTotalScore(riskFactors)]

\* the integer columns of risk_assessments take no NaN
IntegerColumnsAccept(row) ==
    /\ ~IsNaN(row.frequencyScore) /\ ~IsNaN(row.amountScore)
    /\ ~IsNaN(row.timingScore) /\ ~IsNaN(row.locationScore)
    /\ ~IsNaN(row.totalScore)

\* the handler goes on to score the transaction whether or not the patient exists
afterReceiveAlways(patient) == "score"

\* if (!patient) return res.status(404)
afterReceive(patient) == IF patient.exists THEN "score" ELSE "done"

\* the handler up to its first await: the body is parsed, and the recent
\* transactions and the patient are read
Receive(r, patientId, body) ==
    /\ reqs[r].pc = "idle"
    /\ \A q \in ReqIds : q < r => reqs[q].pc # "idle"
    /\ LET patient == getPatient(patientId)
           recent == getTransactions(transactions, patientId, RecentLimit)
       IN  reqs' = [reqs EXCEPT ![r] =
                [@ EXCEPT !.patientId = patientId, !.body = body,
                          !.recentTransactions = recent, !.patient = patient,
                          !.pc = afterReceive(patient),
                          !.status = IF afterReceive(patient) = "done" THEN 404 ELSE 0]]
    /\ UNCHANGED <<now, patients, transactions, alerts, riskAssessments, alertSettings, pureVars>>

\* transactionRow in which the isAnomaly and riskScore of the body, when it
\* carries them, are spread after those of the anomaly result
transactionRowBodyLast(id, patientId, transactionData, anomalyResult) ==
    LET given == IF transactionData.supplied = <<>> THEN anomalyResult
                 ELSE transactionData.supplied[1]
    IN  [id |-> id, patientId |-> patientId, amount |-> transactionData.amount,
         type |-> transactionData.type, location |-> transactionData.location,
         merchant |-> transactionData.merchant,
         description |-> transactionData.description,
         timestamp |-> transactionData.timestamp,
         isAnomaly |-> given.isAnomaly, riskScore |-> given.riskScore]

\* the row createTransaction inserts: { ...transactionData, isAnomaly, riskScore }
\* with the two fields of the anomaly result spread last, under the next id
transactionRow(id, patientId, transactionData, anomalyResult) ==
    [id |-> id, patientId |-> patientId, amount |-> transactionData.amount,
     type |-> transactionData.type, location |-> transactionData.location,
     merchant |-> transactionData.merchant, description |-> transactionData.description,
     timestamp |-> transactionData.timestamp,
     isAnomaly |-> anomalyResult.isAnomaly, riskScore |-> anomalyResult.riskScore]

\* the handler always goes on to the alert branch
afterTransactionAlways(anomalyResult) == "settings"

\* if (anomalyResult.isAnomaly) { ...alert branch... } else the response
afterTransaction(anomalyResult) == IF anomalyResult.isAnomaly THEN "settings" ELSE "done"

\* detectAnomaly and createTransaction
CreateTransaction(r) ==
    /\ reqs[r].pc = "score"
    /\ LET q == reqs[r]
           anomalyResult == detectAnomaly(q.body, q.recentTransactions, dailyAverage(q.patient))
           id == Len(transactions) + 1
           row == transactionRow(id, q.patientId, q.body, anomalyResult)
           next == afterTransaction(anomalyResult)
       IN  /\ transactions' = Append(transactions, row)
           /\ reqs' = [reqs EXCEPT ![r] =
                [@ EXCEPT !.anomalyResult = anomalyResult, !.transactionId = id,
                          !.pc = next,
                          !.status = IF next = "done" THEN 200 ELSE 0]]
    /\ UNCHANGED <<now, patients, alerts, riskAssessments, alertSettings, pureVars>>

\* getAlertSettings(DEMO_USER_ID, patientId)
GetAlertSettings(r) ==
    /\ reqs[r].pc = "settings"
    /\ reqs' = [reqs EXCEPT ![r] =
            [@ EXCEPT !.alertSettings = alertSettings[reqs[r].patientId], !.pc = "alert"]]
    /\ UNCHANGED <<now, patients, transactions, alerts, riskAssessments, alertSettings, pureVars>>

\* alertRow that references the patient's previous transaction
alertRowOfPrevious(id, patientId, transactionId, anomalyResult) ==
    LET alertType == alertTypeOf(anomalyResult.riskScore)
    IN  [id |-> id, patientId |-> patientId, transactionId |-> transactionId - 1,
         type |-> alertType, severity |-> alertSeverityOf(alertType),
         isRead |-> FALSE, isResolved |-> FALSE]

\* the row createAlert inserts for the transaction of an anomaly result, under
\* the next id; isRead and isResolved take their column defaults
alertRow(id, patientId, transactionId, anomalyResult) ==
    LET alertType == alertTypeOf(anomalyResult.riskScore)
    IN  [id |-> id, patientId |-> patientId, transactionId |-> transactionId,
         type |-> alertType, severity |-> alertSeverityOf(alertType),
         isRead |-> FALSE, isResolved |-> FALSE]

\* createAlert
CreateAlert(r) ==
    /\ reqs[r].pc = "alert"
    /\ LET q == reqs[r]
           id == Len(alerts) + 1
           row == alertRow(id, q.patientId, q.transactionId, q.anomalyResult)
       IN  /\ alerts' = Append(alerts, row)
           /\ reqs' = [reqs EXCEPT ![r] = [@ EXCEPT !.alertId = id, !.pc = "assess"]]
    /\ UNCHANGED <<now, patients, transactions, riskAssessments, alertSettings, pureVars>>

\* createRiskAssessment that overwrites the patient's latest row when there is one
createRiskAssessmentInPlace(table, row) ==
    LET own == {i \in 1..Len(table) : table[i].patientId = row.patientId}
    IN  IF own = {} THEN Append(table, row)
        ELSE [table EXCEPT ![CHOOSE i \in own : \A j \in own : j <= i] = row]

\* createRiskAssessment(assessment): db.insert(riskAssessments).values(assessment)
createRiskAssessment(table, row) == Append(table, row)

\* the handler goes on to updatePatient whether or not the insert threw
afterAssessmentAlways(accepted) == "level"

\* await storage.createRiskAssessment(...): a throw leaves the try block
afterAssessment(accepted) == IF accepted THEN "level" ELSE "done"

\* calculateRiskFactors over the history and the new transaction, and
\* createRiskAssessment; a row the table does not accept makes the insert throw,
\* which the handler answers with 500
CreateRiskAssessment(r) ==
    /\ reqs[r].pc = "assess"
    /\ LET q == reqs[r]
           widened == Append(q.recentTransactions, transactions[q.transactionId])
           row == ingestAssessment(q.patientId, widened, now)
           accepted == IntegerColumnsAccept(row)
           next == afterAssessment(accepted)
       IN  /\ riskAssessments' = IF accepted THEN createRiskAssessment(riskAssessments, row)
                                 ELSE riskAssessments
           /\ reqs' = [reqs EXCEPT ![r] =
                 [@ EXCEPT !.assessment = row,
                           !.newRiskLevel = IF next = "level"
                                            THEN ingestRiskLevel(row.totalScore) ELSE "",
                           !.pc = next,
                           !.status = IF next = "level" THEN 0 ELSE 500]]
    /\ UNCHANGED <<now, patients, transactions, alerts, alertSettings, pureVars>>

\* updatePatient(patientId, { riskLevel }) and the response
UpdatePatient(r) ==
    /\ reqs[r].pc = "level"
    /\ patients' = [patients EXCEPT ![reqs[r].patientId].riskLevel = reqs[r].newRiskLevel]
    /\ reqs' = [reqs EXCEPT ![r] = [@ EXCEPT !.pc = "done", !.status = 200]]
    /\ UNCHANGED <<now, transactions, alerts, riskAssessments, alertSettings, pureVars>>

\* POST /api/patients/:id/alert-settings
UpsertAlertSettings(patientId, immediateAlerts) ==
    /\ \/ ~alertSettings[patientId].exists
       \/ alertSettings[patientId].immediateAlerts # immediateAlerts
    /\ alertSettings' = [alertSettings EXCEPT ![patientId] =
            [exists |-> TRUE, immediateAlerts |-> immediateAlerts]]
    /\ UNCHANGED <<now, patients, transactions, alerts, riskAssessments, reqs, pureVars>>

\* markAlertAsRead that flips isRead
markAlertAsReadFlip(table, id) ==
    [i \in 1..Len(table) |->
        IF table[i].id = id THEN [table[i] EXCEPT !.isRead = ~@] ELSE table[i]]

\* markAlertAsRead(id): update alerts set is_read = true where id = :id
markAlertAsRead(table, id) ==
    [i \in 1..Len(table) |->
        IF table[i].id = id THEN [table[i] EXCEPT !.isRead = TRUE] ELSE table[i]]

\* PATCH /api/alerts/:id/read, for an id that an alert has or will have
MarkAlertAsRead(id) ==
    /\ alerts' = markAlertAsRead(alerts, id)
    /\ UNCHANGED <<now, patients, transactions, riskAssessments, alertSettings, reqs, pureVars>>

detectIdle == candidate = NoBody /\ history = <<>> /\ avgSpending = 0 /\ anomaly = <<>>
assessIdle == subject = NoPatient /\ supplied = <<>> /\ callTimes = <<>> /\ profiles = <<>>
scalarIdle == score = 0 /\ mapped = <<>>
policyIdle == alertAmount = 0 /\ settings = NoSettings /\ decision = <<>>
readIdle == activity = <<>> /\ riskViews = <<>>

\* the database before the first request: patient 1 as POST /api/patients creates
\* it (risk level and average by default, no alert settings), patient 2 with the
\* rows of a seeded patient
SeededTransaction ==
    [id |-> 1, patientId |-> 2, amount |-> "90000", type |-> "ATM", location |-> {"busan"},
     merchant |-> {}, description |-> {}, timestamp |-> StartTime - 1,
     isAnomaly |-> FALSE, riskScore |-> 20]

SeededAssessment ==
    [patientId |-> 2, frequencyScore |-> 50, amountScore |-> 50, timingScore |-> 50,
     locationScore |-> 50, totalScore |-> 50]

SeededPatients ==
    (1 :> [riskLevel |-> LowRisk, dementiaStage |-> Moderate,
           avgMonthlySpending |-> "0", exists |-> TRUE])
    @@ (2 :> [riskLevel |-> MediumRisk, dementiaStage |-> Mild,
              avgMonthlySpending |-> "900000", exists |-> TRUE])

Init ==
    /\ now = StartTime
    /\ patients = SeededPatients
    /\ transactions = <<SeededTransaction>>
    /\ alerts = <<>>
    /\ riskAssessments = <<SeededAssessment>>
    /\ alertSettings = (1 :> NoSettings) @@ (2 :> [exists |-> TRUE, immediateAlerts |-> TRUE])
    /\ reqs = [r \in ReqIds |-> IdleRequest]
    /\ detectIdle /\ assessIdle /\ scalarIdle /\ policyIdle /\ readIdle

Next ==
    \/ \E r \in ReqIds, b \in Bodies(now) : Receive(r, 1, b)
    \/ \E r \in ReqIds : Receive(r, MissingPatientId, Body("1200000", now))
    \/ \E r \in ReqIds : CreateTransaction(r)
    \/ \E r \in ReqIds : GetAlertSettings(r)
    \/ \E r \in ReqIds : CreateAlert(r)
    \/ \E r \in ReqIds : CreateRiskAssessment(r)
    \/ \E r \in ReqIds : UpdatePatient(r)
    \/ \E on \in BOOLEAN : UpsertAlertSettings(1, on)
    \/ \E id \in 1..MaxRequests : MarkAlertAsRead(id)

Spec == Init /\ [][Next]_vars

----------------------------------------------------------------------------
(* POST /api/patients/:id/transactions for distinct patients *)

\* a request is received for a patient no earlier request is for
PairReceive(r, patientId, body) ==
    /\ \A q \in ReqIds : q < r => reqs[q].patientId # patientId
    /\ Receive(r, patientId, body)

PairNext ==
    \/ \E r \in ReqIds, p \in PatientIds, b \in Bodies(now) : PairReceive(r, p, b)
    \/ \E r \in ReqIds : CreateTransaction(r)
    \/ \E r \in ReqIds : GetAlertSettings(r)
    \/ \E r \in ReqIds : CreateAlert(r)
    \/ \E r \in ReqIds : CreateRiskAssessment(r)
    \/ \E r \in ReqIds : UpdatePatient(r)

SpecPair == Init /\ [][PairNext]_vars

----------------------------------------------------------------------------
(* POST /api/patients/:id/transactions with storage calls that reject *)

\* the awaited storage calls of the handler after its reads, by the place of
\* the request: createTransaction, getAlertSettings, createAlert,
\* createRiskAssessment, updatePatient
AwaitingStorage == {"score", "settings", "alert", "assess", "level"}

\* Throw that deletes the request's transaction before it answers
ThrowRollingBack(r) ==
    /\ reqs[r].pc \in AwaitingStorage
    /\ transactions' = IF reqs[r].transactionId = Len(transactions) /\ reqs[r].transactionId # 0
                       THEN SubSeq(transactions, 1, Len(transactions) - 1)
                       ELSE transactions
    /\ reqs' = [reqs EXCEPT ![r] = [@ EXCEPT !.pc = "done", !.status = 500]]
    /\ UNCHANGED <<now, patients, alerts, riskAssessments, alertSettings, pureVars>>

\* the storage call the request awaits rejects: the catch block answers 500
Throw(r) ==
    /\ reqs[r].pc \in AwaitingStorage
    /\ reqs' = [reqs EXCEPT ![r] = [@ EXCEPT !.pc = "done", !.status = 500]]
    /\ UNCHANGED <<now, patients, transactions, alerts, riskAssessments, alertSettings,
                   pureVars>>

FailNext ==
    \/ \E r \in ReqIds, b \in Bodies(now) : Receive(r, 1, b)
    \/ \E r \in ReqIds : CreateTransaction(r)
    \/ \E r \in ReqIds : GetAlertSettings(r)
    \/ \E r \in ReqIds : CreateAlert(r)
    \/ \E r \in ReqIds : CreateRiskAssessment(r)
    \/ \E r \in ReqIds : UpdatePatient(r)
    \/ \E r \in ReqIds : Throw(r)

SpecFail == Init /\ [][FailNext]_vars

\* the database before the first request
SeededDb ==
    [patients |-> SeededPatients, transactions |-> <<SeededTransaction>>,
     alerts |-> <<>>, riskAssessments |-> <<SeededAssessment>>]

\* the database after the handler has run alone, from its first statement to its
\* response, on the database db at wall-clock time at
Ingest(db, patientId, body, at) ==
    LET patient == IF patientId \in DOMAIN db.patients THEN db.patients[patientId]
                   ELSE NoPatient
        recent == getTransactions(db.transactions, patientId, RecentLimit)
        anomalyResult == detectAnomaly(body, recent, dailyAverage(patient))
        transactionId == Len(db.transactions) + 1
        transaction == transactionRow(transactionId, patientId, body, anomalyResult)
        alert == alertRow(Len(db.alerts) + 1, patientId, transactionId, anomalyResult)
        assessment == ingestAssessment(patientId, Append(recent, transaction), at)
        stored == [db EXCEPT !.transactions = Append(@, transaction)]
        alerted == [stored EXCEPT !.alerts = Append(@, alert)]
    IN  IF ~patient.exists THEN db
        ELSE IF afterTransaction(anomalyResult) = "done" THEN stored
        ELSE IF afterAssessment(IntegerColumnsAccept(assessment)) = "done" THEN alerted
        ELSE [alerted EXCEPT
                !.riskAssessments = createRiskAssessment(@, assessment),
                !.patients[patientId].riskLevel = ingestRiskLevel(assessment.totalScore)]

----------------------------------------------------------------------------
(* Calls of detectAnomaly on arguments of any shape *)

MaxHistory == 5

ingestIdle ==
    /\ patients = <<>> /\ transactions = <<>> /\ alerts = <<>>
    /\ riskAssessments = <<>> /\ alertSettings = <<>> /\ reqs = <<>>

\* the candidates: the amount may be none a number ("abc"), the time 02h or 14h
Candidates ==
    [amount : {"10000", "500000", "1200000", "abc"}, type : {"ATM", "CARD"},
     location : {{}, {"Seoul", "gangnam"}},
     merchant : {{}, {"keyword"}, {"keyword", "online", "unknown"}},
     description : {{}}, timestamp : {StartTime, StartTime + 12}]

\* the rows a history is made of: one in the 24 hours before each candidate, one
\* more than 24 hours before each candidate, one later than each candidate
HistoryRows ==
    {[amount |-> "10000", type |-> "ATM", location |-> {"seoul"}, timestamp |-> StartTime - 1],
     [amount |-> "90000", type |-> "CARD", location |-> {"busan"}, timestamp |-> StartTime - 30],
     [amount |-> "10000", type |-> "ATM", location |-> {}, timestamp |-> StartTime + 20]}

DetectInit ==
    /\ now = StartTime
    /\ ingestIdle /\ assessIdle /\ scalarIdle /\ policyIdle /\ readIdle
    /\ candidate \in Candidates
    /\ history = <<>>
    /\ avgSpending \in {0, 100000}
    /\ anomaly = <<>>

\* the caller puts one more row into the history it will pass
ExtendHistory(row) ==
    /\ anomaly = <<>>
    /\ Len(history) < MaxHistory
    /\ history' = Append(history, row)
    /\ UNCHANGED <<candidate, avgSpending, anomaly, now, ingestVars, assessVars, scalarVars, policyVars, readVars>>

\* the call detectAnomaly(candidate, history, avgSpending)
Detect ==
    /\ anomaly = <<>>
    /\ anomaly' = <<detectAnomaly(candidate, history, avgSpending)>>
    /\ UNCHANGED <<candidate, history, avgSpending, now, ingestVars, assessVars, scalarVars, policyVars, readVars>>

DetectNext ==
    \/ \E row \in HistoryRows : ExtendHistory(row)
    \/ Detect

SpecDetect == DetectInit /\ [][DetectNext]_vars

----------------------------------------------------------------------------
(* Calls of assessRisk on arguments of any shape, at several wall-clock times *)

MaxSupplied == 3
MaxCalls == 2
MaxElapses == 2
ElapseHours == 100

Stages == {"", Mild, Moderate, Severe}

\* the patients: any dementia stage, with and without a monthly average
Subjects ==
    [riskLevel : {LowRisk}, dementiaStage : Stages,
     avgMonthlySpending : {"", "900000"}, exists : {TRUE}]

\* the rows a transaction set is made of: now (02h), 12 hours ago (14h), 100
\* hours ago (22h) and 200 hours ago (18h, more than a week)
SuppliedRows ==
    {[amount |-> "1200000", type |-> "ATM", location |-> {"seoul"},
      timestamp |-> StartTime, isAnomaly |-> TRUE],
     [amount |-> "10000", type |-> "CARD", location |-> {"busan"},
      timestamp |-> StartTime - 12, isAnomaly |-> FALSE],
     [amount |-> "abc", type |-> "ATM", location |-> {},
      timestamp |-> StartTime - 100, isAnomaly |-> FALSE],
     [amount |-> "1200000", type |-> "ATM", location |-> {"seoul"},
      timestamp |-> StartTime - 200, isAnomaly |-> TRUE]}

AssessInit ==
    /\ now = StartTime
    /\ ingestIdle /\ detectIdle /\ scalarIdle /\ policyIdle /\ readIdle
    /\ subject \in Subjects
    /\ supplied = <<>>
    /\ callTimes = <<>>
    /\ profiles = <<>>

\* the caller puts one more row into the transaction set it will pass
Supply(row) ==
    /\ profiles = <<>>
    /\ now = StartTime
    /\ Len(supplied) < MaxSupplied
    /\ supplied' = Append(supplied, row)
    /\ UNCHANGED <<subject, callTimes, profiles, now, ingestVars, detectVars, scalarVars, policyVars, readVars>>

\* the call assessRisk(subject, supplied), which reads the clock
Assess ==
    /\ Len(profiles) < MaxCalls
    /\ callTimes' = Append(callTimes, now)
    /\ profiles' = Append(profiles, assessRisk(subject, supplied, now))
    /\ UNCHANGED <<subject, supplied, now, ingestVars, detectVars, scalarVars, policyVars, readVars>>

\* time passes between the calls
Elapse ==
    /\ now < StartTime + MaxElapses * ElapseHours
    /\ now' = now + ElapseHours
    /\ UNCHANGED <<ingestVars, detectVars, assessVars, scalarVars, policyVars, readVars>>

AssessNext ==
    \/ \E row \in SuppliedRows : Supply(row)
    \/ Assess
    \/ Elapse

SpecAssess == AssessInit /\ [][AssessNext]_vars

----------------------------------------------------------------------------
(* Calls of assessRisk on the transactions of a busy week *)

MaxWeek == 37

\* k copies of a row
Repeat(row, k) == [i \in 1..k |-> row]

\* a small payment now (02h), a larger one 12 hours ago (14h), a withdrawal 200
\* hours ago (more than a week)
NightRow ==
    [amount |-> "10000", type |-> "CARD", location |-> {"seoul"},
     timestamp |-> StartTime, isAnomaly |-> FALSE]
DayRow ==
    [amount |-> "100000", type |-> "CARD", location |-> {"busan"},
     timestamp |-> StartTime - 12, isAnomaly |-> FALSE]
OldRow ==
    [amount |-> "1200000", type |-> "ATM", location |-> {"seoul"},
     timestamp |-> StartTime - 200, isAnomaly |-> FALSE]

\* the transaction sets: up to MaxWeek transactions of the week, by night and by
\* day, with or without an older one
WeekSets ==
    {Repeat(NightRow, a) \o Repeat(DayRow, b) \o Repeat(OldRow, c) :
        a \in 0..MaxWeek, b \in 0..MaxWeek, c \in 0..1}

WeekInit ==
    /\ now = StartTime
    /\ ingestIdle /\ detectIdle /\ scalarIdle /\ policyIdle /\ readIdle
    /\ subject \in Subjects
    /\ supplied \in {txs \in WeekSets : Len(txs) <= MaxWeek + 1}
    /\ callTimes = <<>>
    /\ profiles = <<>>

WeekNext == Assess

SpecWeek == WeekInit /\ [][WeekNext]_vars

----------------------------------------------------------------------------
(* The mappings of one score: total score to risk level, base factor to
   adjusted factor *)

ScalarInit ==
    /\ now = StartTime
    /\ ingestIdle /\ detectIdle /\ assessIdle /\ policyIdle /\ readIdle
    /\ score \in 0..ScoreCap
    /\ mapped = <<>>

\* the mappings applied to the score
MapScore ==
    /\ mapped = <<>>
    /\ mapped' = <<[riskLevel |-> determineRiskLevel(score),
                    newRiskLevel |-> ingestRiskLevel(score),
                    adjusted |-> [stage \in Stages |-> adjustFactor(score, stage)]]>>
    /\ UNCHANGED <<score, now, ingestVars, detectVars, assessVars, policyVars, readVars>>

ScalarNext == MapScore

SpecScalar == ScalarInit /\ [][ScalarNext]_vars

----------------------------------------------------------------------------
(* The alert policy on one score: the type and severity ingestion gives the
   alert of an anomalous transaction, and shouldSendImmediateAlert *)

\* the amounts handed to shouldSendImmediateAlert, one of them not a number
PolicyAmounts == {NaN, 90000, 100000, 500000}

\* the settings handed to shouldSendImmediateAlert: none, or a row whose
\* threshold is empty or a decimal
PolicySettings ==
    {[exists |-> FALSE, immediateAlerts |-> FALSE, threshold |-> ""]}
    \cup [exists : {TRUE}, immediateAlerts : BOOLEAN, threshold : {"", "100000", "500000"}]

PolicyInit ==
    /\ now = StartTime
    /\ ingestIdle /\ detectIdle /\ assessIdle /\ readIdle
    /\ score \in 0..ScoreCap
    /\ mapped = <<>>
    /\ alertAmount \in PolicyAmounts
    /\ settings \in PolicySettings
    /\ decision = <<>>

\* the alert type and severity of routes.ts for the score, and the answer of
\* shouldSendImmediateAlert
Decide ==
    /\ decision = <<>>
    /\ decision' = <<[alertType |-> alertTypeOf(score),
                      severity |-> alertSeverityOf(alertTypeOf(score)),
                      immediate |-> shouldSendImmediateAlert(score, alertAmount, settings)]>>
    /\ UNCHANGED <<alertAmount, settings, now, ingestVars, detectVars, assessVars, scalarVars,
                   readVars>>

PolicyNext == Decide

SpecPolicy == PolicyInit /\ [][PolicyNext]_vars

----------------------------------------------------------------------------
(* GET /api/activity *)

ActivityPerPatient == 5
ActivityLimit == 10

\* the label of a transaction in the feed
activityRiskLevel(riskScore) ==
    IF riskScore >= 70 THEN HighRisk ELSE IF riskScore >= 50 THEN MediumRisk ELSE "NORMAL"

\* the entry pushed for a transaction
activityEntry(transaction) ==
    [id |-> transaction.id, patientId |-> transaction.patientId,
     riskLevel |-> activityRiskLevel(transaction.riskScore),
     isAnomaly |-> transaction.isAnomaly]

\* the entries gathered for the patients 1..n, patient by patient: for each, the
\* ActivityPerPatient transactions getTransactions returns
RECURSIVE gatherActivities(_, _)
gatherActivities(txs, n) ==
    IF n = 0 THEN <<>>
    ELSE LET recentTransactions == getTransactions(txs, n, ActivityPerPatient)
         IN  gatherActivities(txs, n - 1)
             \o [i \in 1..Len(recentTransactions) |-> activityEntry(recentTransactions[i])]

\* activities.sort((a, b) => a.id - b.id): the ids are distinct, so the place of
\* an entry is one more than the number of entries with a lower id
sortById(activities) ==
    LET n == Len(activities)
        place(i) == 1 + Cardinality({j \in 1..n : activities[j].id < activities[i].id})
    IN  [k \in 1..n |-> activities[CHOOSE i \in 1..n : place(i) = k]]

\* activities.slice(0, 10)
sliceActivities(activities) ==
    SubSeq(activities, 1, IF Len(activities) < ActivityLimit THEN Len(activities)
                          ELSE ActivityLimit)

\* the response of GET /api/activity for the patients 1..n; the order in which
\* getPatients returns them does not survive the sort
activityFeed(txs, n) == sliceActivities(sortById(gatherActivities(txs, n)))

MaxPerPatient == 6
ActivityPatients == 1..3

\* the slots of a table of transactions, as (patient, number of the patient's
\* transaction): patient after patient, or one transaction of each in turn
Slots(layout) ==
    [i \in 1..(3 * MaxPerPatient) |->
        IF layout = "blocks"
        THEN <<((i - 1) \div MaxPerPatient) + 1, ((i - 1) % MaxPerPatient) + 1>>
        ELSE <<((i - 1) % 3) + 1, ((i - 1) \div 3) + 1>>]

\* a table in which patient p has counts[p] transactions, with ids in insertion
\* order and timestamps that rise or fall with the id
ActivityTable(counts, layout, rising) ==
    LET owners == SelectSeq(Slots(layout), LAMBDA slot : slot[2] <= counts[slot[1]])
    IN  [i \in 1..Len(owners) |->
            [SeededTransaction EXCEPT
                !.id = i, !.patientId = owners[i][1],
                !.timestamp = IF rising THEN StartTime - Len(owners) + i ELSE StartTime - i,
                !.riskScore = (i * 30) % 100,
                !.isAnomaly = (i * 30) % 100 >= AnomalyThreshold]]

ActivityInit ==
    /\ now = StartTime
    /\ patients = [p \in ActivityPatients |-> SeededPatients[1]]
    /\ \E counts \in [ActivityPatients -> 0..MaxPerPatient],
          layout \in {"blocks", "rounds"}, rising \in BOOLEAN :
          transactions = ActivityTable(counts, layout, rising)
    /\ alerts = <<>>
    /\ riskAssessments = <<>>
    /\ alertSettings = [p \in ActivityPatients |-> NoSettings]
    /\ reqs = [r \in ReqIds |-> IdleRequest]
    /\ detectIdle /\ assessIdle /\ scalarIdle /\ policyIdle /\ readIdle

\* GET /api/activity
GetActivity ==
    /\ activity = <<>>
    /\ activity' = <<activityFeed(transactions, Cardinality(DOMAIN patients))>>
    /\ UNCHANGED <<riskViews, now, ingestVars, detectVars, assessVars, scalarVars, policyVars>>

ActivityNext == GetActivity

SpecActivity == ActivityInit /\ [][ActivityNext]_vars

----------------------------------------------------------------------------
(* GET /api/patients and GET /api/patients/:id/risk-assessment *)

ListLimit == 10
DetailLimit == 30

\* the risk profile an endpoint computes for a patient from the limit most
\* recent transactions, with the frequency score before the dementia multiplier
riskView(endpoint, patientId, limit, at) ==
    LET patient == getPatient(patientId)
        recentTransactions == getTransactions(transactions, patientId, limit)
    IN  [endpoint |-> endpoint, patientId |-> patientId,
         supplied |-> Len(recentTransactions),
         frequencyBase |-> baseRiskFactors(patient, recentTransactions, at).frequency,
         riskProfile |-> assessRisk(patient, recentTransactions, at)]

MaxStored == 40

\* the hours between two transactions of a stored table
Spacings == {1, 4}

\* a table in which patient 1 has k transactions, one every spacing hours up to
\* an hour ago
StoredTable(k, spacing) ==
    [i \in 1..k |->
        [SeededTransaction EXCEPT !.id = i, !.patientId = 1,
                                  !.timestamp = StartTime - 1 - spacing * (k - i)]]

ViewsInit ==
    /\ now = StartTime
    /\ \E stage \in Stages : patients = [SeededPatients EXCEPT ![1].dementiaStage = stage]
    /\ \E k \in 0..MaxStored, spacing \in Spacings : transactions = StoredTable(k, spacing)
    /\ alerts = <<>>
    /\ riskAssessments = <<SeededAssessment>>
    /\ alertSettings = (1 :> NoSettings) @@ (2 :> NoSettings)
    /\ reqs = [r \in ReqIds |-> IdleRequest]
    /\ detectIdle /\ assessIdle /\ scalarIdle /\ policyIdle /\ readIdle

\* GET /api/patients, for the first patient of the list
ListPatients ==
    /\ \A i \in 1..Len(riskViews) : riskViews[i].endpoint # "patients"
    /\ riskViews' = Append(riskViews, riskView("patients", 1, ListLimit, now))
    /\ UNCHANGED <<activity, now, ingestVars, detectVars, assessVars, scalarVars, policyVars>>

\* GET /api/patients/:id/risk-assessment
GetRiskAssessment(patientId) ==
    /\ \A i \in 1..Len(riskViews) : riskViews[i].endpoint # "risk-assessment"
    /\ riskViews' = Append(riskViews, riskView("risk-assessment", patientId, DetailLimit, now))
    /\ UNCHANGED <<activity, now, ingestVars, detectVars, assessVars, scalarVars, policyVars>>

ViewsNext ==
    \/ ListPatients
    \/ GetRiskAssessment(1)

SpecViews == ViewsInit /\ [][ViewsNext]_vars

----------------------------------------------------------------------------
(* Claims about transaction ingestion, checked under Spec *)

InScoreRange(x) == x \in 0..100

\* the requests that are between their first read and their response
InProgress(r) == reqs[r].pc \notin {"idle", "done"}

\* the requests that have handed a row to createRiskAssessment
Assessed(r) ==
    \/ reqs[r].pc = "level"
    \/ reqs[r].pc = "done" /\ reqs[r].anomalyResult.isAnomaly

\* the history and the new transaction of a request that has stored its transaction
Widened(r) == Append(reqs[r].recentTransactions, transactions[reqs[r].transactionId])

\* C1: a request whose transaction is flagged as an anomaly and that finds alert
\* settings with immediateAlerts = false creates no alert
C1_NoAlertWhenImmediateAlertsOff ==
    \A r \in ReqIds :
        (/\ reqs[r].anomalyResult.isAnomaly
         /\ reqs[r].alertSettings.exists
         /\ ~reqs[r].alertSettings.immediateAlerts)
        => reqs[r].alertId = 0

\* C2: whenever no ingestion for a patient is in progress and the patient has a
\* risk assessment, the patient's riskLevel is the tier of the totalScore of the
\* latest risk assessment
C2_RiskLevelReflectsLatestAssessment ==
    \A p \in PatientIds :
        LET latest == getLatestRiskAssessment(riskAssessments, p)
        IN  (/\ \A r \in ReqIds : reqs[r].patientId = p => ~InProgress(r)
             /\ latest # <<>>)
            => patients[p].riskLevel = determineRiskLevel(latest[1].totalScore)

\* C6: every row that ingestion hands to createRiskAssessment, and every row of
\* the table, has its five scores in 0..100
C6_AssessmentScoresInRange ==
    /\ \A r \in ReqIds :
          Assessed(r) =>
              /\ InScoreRange(reqs[r].assessment.frequencyScore)
              /\ InScoreRange(reqs[r].assessment.amountScore)
              /\ InScoreRange(reqs[r].assessment.timingScore)
              /\ InScoreRange(reqs[r].assessment.locationScore)
              /\ InScoreRange(reqs[r].assessment.totalScore)
    /\ \A i \in 1..Len(riskAssessments) :
          /\ InScoreRange(riskAssessments[i].frequencyScore)
          /\ InScoreRange(riskAssessments[i].amountScore)
          /\ InScoreRange(riskAssessments[i].timingScore)
          /\ InScoreRange(riskAssessments[i].locationScore)
          /\ InScoreRange(riskAssessments[i].totalScore)

\* C7: the risk assessment a request persists holds the factors and the total
\* score of assessRisk over the history and the new transaction, and the risk
\* level it writes is the one of assessRisk
C7_AssessmentIsRiskProfile ==
    \A r \in ReqIds :
        (Assessed(r) /\ reqs[r].status # 500) =>
            LET profile == assessRisk(reqs[r].patient, Widened(r), now)
            IN  /\ reqs[r].assessment.frequencyScore = profile.factors.frequency
                /\ reqs[r].assessment.amountScore = profile.factors.amount
                /\ reqs[r].assessment.timingScore = profile.factors.timing
                /\ reqs[r].assessment.locationScore = profile.factors.location
                /\ reqs[r].assessment.totalScore = profile.totalScore
                /\ reqs[r].newRiskLevel = profile.riskLevel

----------------------------------------------------------------------------
(* Claims about detectAnomaly, checked under SpecDetect *)

\* C3: detectAnomaly flags a transaction as an anomaly exactly when the risk
\* score it returns is at least 30
C3_AnomalyIffScoreAtLeast30 ==
    anomaly # <<>> => (anomaly[1].isAnomaly <=> anomaly[1].riskScore >= 30)

\* a call that returned the score 30, which is flagged
C3_Witness == anomaly # <<>> /\ anomaly[1].riskScore = 30 /\ anomaly[1].isAnomaly

\* C4: the risk score detectAnomaly returns is an integer in 0..100
C4_RiskScoreInRange == anomaly # <<>> => anomaly[1].riskScore \in 0..100

\* a call whose five partial scores sum to more than 100
C4_Witness ==
    /\ anomaly # <<>>
    /\ partialSum(candidate, history, avgSpending) > 100
    /\ anomaly[1].riskScore = 100

----------------------------------------------------------------------------
(* Claims about assessRisk, checked under SpecAssess *)

\* C5: the four factors and the total score assessRisk returns are integers in
\* 0..100
C5_ProfileScoresInRange ==
    \A i \in 1..Len(profiles) :
        /\ InScoreRange(profiles[i].factors.frequency)
        /\ InScoreRange(profiles[i].factors.amount)
        /\ InScoreRange(profiles[i].factors.timing)
        /\ InScoreRange(profiles[i].factors.location)
        /\ InScoreRange(profiles[i].totalScore)

\* a call with a transaction set that is not empty and has no transaction in the
\* trailing 7 days
C5_Witness ==
    /\ Len(profiles) > 0
    /\ supplied # <<>>
    /\ Since(supplied, callTimes[1] - HoursPerWeek) = {}
    /\ profiles[1].factors.timing = 0

\* C9: two calls of assessRisk with the same patient and the same transaction
\* set return the same result, whatever the times of the calls
C9_SameProfileAtAnyTime ==
    Len(profiles) >= 2 => profiles[1] = profiles[2]

----------------------------------------------------------------------------
(* Claims about the mappings of one score, checked under SpecScalar *)

\* C8: determineRiskLevel and the risk level ingestion writes agree on every total
\* score, and give high from 70, medium from 40 to 69 and low below 40
C8_TiersPartitionAndAgree ==
    mapped # <<>> =>
        /\ mapped[1].riskLevel = mapped[1].newRiskLevel
        /\ mapped[1].riskLevel \in {HighRisk, MediumRisk, LowRisk}
        /\ mapped[1].riskLevel = HighRisk <=> score >= 70
        /\ mapped[1].riskLevel = MediumRisk <=> (score >= 40 /\ score < 70)
        /\ mapped[1].riskLevel = LowRisk <=> score < 40

\* the total score 70, mapped to the high tier by both mappings
C8_Witness ==
    /\ mapped # <<>>
    /\ score = 70
    /\ mapped[1].riskLevel = HighRisk
    /\ mapped[1].newRiskLevel = HighRisk

\* C10 as stated: for every base score below 100 the adjusted factor is
\* strictly larger for moderate than for mild and for severe than for moderate,
\* unless it is clamped at 100
C10_StrictlyIncreasing ==
    (mapped # <<>> /\ score < 100) =>
        /\ \/ mapped[1].adjusted[Moderate] > mapped[1].adjusted[Mild]
           \/ mapped[1].adjusted[Moderate] = 100
        /\ \/ mapped[1].adjusted[Severe] > mapped[1].adjusted[Moderate]
           \/ mapped[1].adjusted[Severe] = 100

\* C10 as amended: for every base score below 100 the adjusted factor never
\* decreases from mild to moderate to severe, and from the base score 3 on it
\* strictly increases unless it is clamped at 100
C10_IncreasingFromThree ==
    (mapped # <<>> /\ score < 100) =>
        /\ mapped[1].adjusted[Mild] <= mapped[1].adjusted[Moderate]
        /\ mapped[1].adjusted[Moderate] <= mapped[1].adjusted[Severe]
        /\ score >= 3 =>
              /\ \/ mapped[1].adjusted[Moderate] > mapped[1].adjusted[Mild]
                 \/ mapped[1].adjusted[Moderate] = 100
              /\ \/ mapped[1].adjusted[Severe] > mapped[1].adjusted[Moderate]
                 \/ mapped[1].adjusted[Severe] = 100

\* the base score 50, adjusted to 55, 65 and 75
C10_Witness ==
    /\ mapped # <<>>
    /\ score = 50
    /\ mapped[1].adjusted[Mild] = 55
    /\ mapped[1].adjusted[Moderate] = 65
    /\ mapped[1].adjusted[Severe] = 75

----------------------------------------------------------------------------
(* Claims about the alert policy, checked under SpecPolicy *)

\* C11: the alert of an anomalous transaction (risk score 30 or more) has type
\* urgent from 70, high-risk from 50 to 69 and medium-risk from 30 to 49, and its
\* severity is high from 50 and medium below, never low
C11_AlertTypeAndSeverityByScore ==
    (decision # <<>> /\ score >= 30) =>
        /\ decision[1].alertType \in {Urgent, HighRisk, MediumRisk}
        /\ decision[1].alertType = Urgent <=> score >= 70
        /\ decision[1].alertType = HighRisk <=> (score >= 50 /\ score < 70)
        /\ decision[1].alertType = MediumRisk <=> (score >= 30 /\ score < 50)
        /\ decision[1].severity = "high" <=> score >= 50
        /\ decision[1].severity = "medium" <=> score < 50
        /\ decision[1].severity # "low"

\* the risk score 70: an urgent alert of severity high
C11_Witness ==
    /\ decision # <<>>
    /\ score = 70
    /\ decision[1].alertType = Urgent
    /\ decision[1].severity = "high"

\* C12 as stated: shouldSendImmediateAlert is true exactly when immediateAlerts
\* is set and the risk score is 70 or more or the amount is at least the
\* threshold of the settings
C12_ImmediateIffGatedScoreOrThreshold ==
    decision # <<>> =>
        (decision[1].immediate <=>
            /\ settings.exists
            /\ settings.immediateAlerts
            /\ \/ score >= 70
               \/ Ge(alertAmount, parseFloat(settings.threshold)))

\* C12 as amended: the same, with the threshold 100000 when the settings hold
\* none
C12_ImmediateIffGatedScoreOrDefaultedThreshold ==
    decision # <<>> =>
        (decision[1].immediate <=>
            /\ settings.exists
            /\ settings.immediateAlerts
            /\ \/ score >= 70
               \/ /\ settings.threshold # ""
                  /\ Ge(alertAmount, parseFloat(settings.threshold))
               \/ /\ settings.threshold = ""
                  /\ Ge(alertAmount, 100000))

\* immediateAlerts set, a score below 70 and an amount that reaches the threshold
C12_Witness ==
    /\ decision # <<>>
    /\ settings.exists /\ settings.immediateAlerts
    /\ settings.threshold = "500000"
    /\ score = 69
    /\ alertAmount = 500000
    /\ decision[1].immediate

----------------------------------------------------------------------------
(* Claims about the partial scores of detectAnomaly, checked under SpecDetect *)

\* C13: the risk score of detectAnomaly is the sum of the amount, frequency,
\* timing, merchant and location partial scores, capped at 100; for the amount
\* 1200000, type ATM, hour 2, an empty history and the average 100000 the
\* partial scores are 75, 0, 20, 0 and 0, the risk score is 95 and the
\* transaction is an anomaly
C13_ScoreIsCappedSumOfPartials ==
    anomaly # <<>> =>
        LET amountPart == analyzeAmount(candidate.amount, avgSpending, history)
            frequencyPart == analyzeFrequency(candidate, history)
            timePart == analyzeTime(candidate.timestamp)
            merchantPart == analyzeMerchant(candidate.merchant, candidate.description)
            locationPart == analyzeLocation(candidate.location, history)
            sum == amountPart + frequencyPart + timePart + merchantPart + locationPart
        IN  /\ anomaly[1].riskScore = IF sum < 100 THEN sum ELSE 100
            /\ (/\ candidate.amount = "1200000" /\ candidate.type = "ATM"
                /\ getHours(candidate.timestamp) = 2
                /\ candidate.merchant = {} /\ candidate.description = {}
                /\ history = <<>> /\ avgSpending = 100000)
               => /\ amountPart = 75 /\ frequencyPart = 0 /\ timePart = 20
                  /\ merchantPart = 0 /\ locationPart = 0
                  /\ anomaly[1].riskScore = 95
                  /\ anomaly[1].isAnomaly

\* the call for the amount 1200000, type ATM, hour 2, no history and the average
\* 100000, which returned 95
C13_Witness ==
    /\ anomaly # <<>>
    /\ candidate.amount = "1200000" /\ candidate.type = "ATM"
    /\ getHours(candidate.timestamp) = 2
    /\ candidate.merchant = {} /\ candidate.description = {}
    /\ history = <<>> /\ avgSpending = 100000
    /\ anomaly[1].riskScore = 95
    /\ anomaly[1].isAnomaly

\* C14: the frequency partial score counts the history transactions stamped in
\* the 24 hours up to the candidate's timestamp, none stamped later: 30 for 5 or
\* more, 15 for 3 or 4, and 25 more for an ATM candidate with 3 or more ATM
\* transactions in that window
C14_FrequencyCountsTrailingDay ==
    anomaly # <<>> =>
        LET trailing == {i \in 1..Len(history) :
                            /\ history[i].timestamp >= candidate.timestamp - 24
                            /\ history[i].timestamp <= candidate.timestamp}
            count == Cardinality(trailing)
            atmCount == Cardinality({i \in trailing : history[i].type = "ATM"})
        IN  analyzeFrequency(candidate, history)
            = (IF count >= 5 THEN 30 ELSE IF count >= 3 THEN 15 ELSE 0)
              + (IF candidate.type = "ATM" /\ atmCount >= 3 THEN 25 ELSE 0)

\* C15: for a candidate with a location, the location partial score is 15
\* exactly when the history is not empty and the candidate's location shares no
\* word with the location of any of the 10 most recent history transactions,
\* those without a location included, and 0 otherwise
C15_LocationUnlikeRecentHistory ==
    (anomaly # <<>> /\ candidate.location # {}) =>
        LET recent == 1..(IF Len(history) < 10 THEN Len(history) ELSE 10)
            shares(i) == \E w1 \in candidate.location, w2 \in history[i].location :
                            toLowerCase(w1) = toLowerCase(w2)
            unlike == history # <<>> /\ \A i \in recent : ~shares(i)
        IN  analyzeLocation(candidate.location, history) = IF unlike THEN 15 ELSE 0

----------------------------------------------------------------------------
(* Claims about the amounts and buckets of assessRisk *)

\* a transaction with an amount that does not parse, given the amount "0"
ZeroedAmount(t) == IF IsNaN(parseFloat(t.amount)) THEN [t EXCEPT !.amount = "0"] ELSE t

\* a transaction set with every amount that does not parse replaced by "0"
Zeroed(txs) == [i \in 1..Len(txs) |-> ZeroedAmount(txs[i])]

\* C16: assessRisk returns the same result when every amount of the transaction
\* set that does not parse is replaced by "0"
C16_UnparseableAmountIsZero ==
    \A i \in 1..Len(profiles) :
        profiles[i] = assessRisk(subject, Zeroed(supplied), callTimes[i])

\* the transactions of the set that assessRisk, called at time at, puts in the week
InWeek(txs, at) == SelectSeq(txs, LAMBDA t : t.timestamp >= at - HoursPerWeek)

\* C17: the frequency factor of assessRisk is the adjusted bucket of the number n
\* of transactions in the trailing 7 days (85 above 35, 60 above 21, 35 above 14,
\* else 15), and with a monthly average A > 0 and the weekly total W the amount
\* factor is the adjusted bucket 85 if 4W > 3A, 60 if 4W > 2A, 40 if 4W > 1.5A,
\* else 20
C17_FrequencyAndAmountBuckets ==
    \A i \in 1..Len(profiles) :
        LET week == InWeek(supplied, callTimes[i])
            n == Len(week)
            W == SumAmounts(week)
            A == parseFloat(orZero(subject.avgMonthlySpending))
            frequencyBase ==
                IF n > 35 THEN 85 ELSE IF n > 21 THEN 60 ELSE IF n > 14 THEN 35 ELSE 15
            amountBase ==
                IF 4 * W > 3 * A THEN 85
                ELSE IF 4 * W > 2 * A THEN 60
                ELSE IF 8 * W > 3 * A THEN 40
                ELSE 20
        IN  /\ profiles[i].factors.frequency
               = adjustFactor(frequencyBase, subject.dementiaStage)
            /\ (A > 0 /\ ~IsNaN(W)) =>
                  profiles[i].factors.amount
                  = adjustFactor(amountBase, subject.dementiaStage)

\* 21 transactions in the week with the total 210000, and the monthly average
\* 900000, for a patient without a dementia stage: frequency 35, amount 20
C17_Witness ==
    /\ Len(profiles) > 0
    /\ Len(InWeek(supplied, callTimes[1])) = 21
    /\ SumAmounts(InWeek(supplied, callTimes[1])) = 210000
    /\ subject.avgMonthlySpending = "900000"
    /\ subject.dementiaStage = ""
    /\ profiles[1].factors.frequency = 35
    /\ profiles[1].factors.amount = 20

\* C18: the total score of assessRisk is (30 * frequency + 40 * amount
\* + 15 * timing + 15 * location) / 100 over the adjusted factors, rounded to the
\* nearest integer; the base factor 50 of a mild stage is adjusted to 55, and
\* four factors of 55 give the total score 55 and the risk level medium
C18_TotalIsRoundedWeightedSum ==
    /\ \A i \in 1..Len(profiles) :
          profiles[i].totalScore
          = RoundDiv(30 * profiles[i].factors.frequency + 40 * profiles[i].factors.amount
                     + 15 * profiles[i].factors.timing + 15 * profiles[i].factors.location,
                     100)
    /\ adjustFactor(50, Mild) = 55
    /\ calculateTotalScore([frequency |-> 55, amount |-> 55, timing |-> 55, location |-> 55]) = 55
    /\ determineRiskLevel(55) = MediumRisk


\* the tables other than transactions
otherTables == <<patients, alerts, riskAssessments, alertSettings>>

\* the step is one of request r, which has persisted its transaction and was
\* told by detectAnomaly that the transaction is not anomalous
NonAnomalousStep(r) ==
    /\ reqs'[r] # reqs[r]
    /\ reqs'[r].transactionId # 0
    /\ reqs'[r].anomalyResult.riskScore < AnomalyThreshold

\* C19: every step of an ingestion whose transaction is not anomalous (riskScore
\* < 30) is the one that appends exactly one row, that of the request, to the
\* transactions and answers 200; it creates no alert and no risk assessment and
\* leaves the patient, risk level included, and the alert settings as they are
C19_NonAnomalousIngestionFrame ==
    [][\A r \in ReqIds : NonAnomalousStep(r) =>
          /\ reqs[r].pc = "score" /\ reqs'[r].pc = "done" /\ reqs'[r].status = 200
          /\ Len(transactions') = Len(transactions) + 1
          /\ SubSeq(transactions', 1, Len(transactions)) = transactions
          /\ reqs'[r].transactionId = Len(transactions')
          /\ transactions'[Len(transactions')].riskScore = reqs'[r].anomalyResult.riskScore
          /\ reqs'[r].alertId = 0 /\ reqs'[r].assessment = NoAssessment
          /\ UNCHANGED otherTables]_vars

\* a non-anomalous ingestion has answered and the database is the initial one
\* plus its transaction
C19_Witness ==
    \E r \in ReqIds :
        /\ reqs[r].pc = "done" /\ reqs[r].status = 200
        /\ reqs[r].anomalyResult.riskScore < AnomalyThreshold
        /\ ~reqs[r].anomalyResult.isAnomaly
        /\ Len(transactions) = 2 /\ transactions[2].id = reqs[r].transactionId
        /\ alerts = <<>> /\ riskAssessments = <<SeededAssessment>>
        /\ patients[1].riskLevel = LowRisk

\* C20: at every moment, the row of every request that has persisted its
\* transaction is the parsed body with the isAnomaly and riskScore detectAnomaly
\* returned for it over the history and the patient the request read, whatever
\* the body supplied for the two fields; the row of the seeded transaction is
\* the seeded one
C20_StoredResultIsDetectAnomalys ==
    /\ transactions[1] = SeededTransaction
    /\ \A r \in ReqIds : reqs[r].transactionId # 0 =>
          LET q == reqs[r]
              result == detectAnomaly(q.body, q.recentTransactions, dailyAverage(q.patient))
              row == transactions[q.transactionId]
          IN  /\ q.transactionId \in 2..Len(transactions)
              /\ row.isAnomaly = result.isAnomaly /\ row.riskScore = result.riskScore
              /\ q.anomalyResult = result
              /\ row.id = q.transactionId /\ row.patientId = q.patientId
              /\ row.amount = q.body.amount /\ row.type = q.body.type
              /\ row.location = q.body.location /\ row.merchant = q.body.merchant
              /\ row.description = q.body.description
              /\ row.timestamp = q.body.timestamp
    /\ \A i \in 2..Len(transactions) : \E r \in ReqIds : reqs[r].transactionId = i

\* both requests have answered: one whose body supplied isAnomaly true and
\* riskScore 99 for a transaction scored below 30, one whose body supplied
\* isAnomaly false and riskScore 0 for an anomalous transaction, after an alert
\* of the second was marked read and the patient's risk level was written
C20_Witness ==
    \E r, o \in ReqIds :
        /\ reqs[r].pc = "done" /\ reqs[o].pc = "done"
        /\ reqs[r].body.supplied = <<[isAnomaly |-> TRUE, riskScore |-> 99]>>
        /\ ~transactions[reqs[r].transactionId].isAnomaly
        /\ transactions[reqs[r].transactionId].riskScore < AnomalyThreshold
        /\ reqs[o].body.supplied = <<[isAnomaly |-> FALSE, riskScore |-> 0]>>
        /\ transactions[reqs[o].transactionId].isAnomaly
        /\ reqs[o].status = 200 /\ reqs[o].newRiskLevel # ""
        /\ alerts # <<>> /\ alerts[1].isRead

\* C21: the risk assessments are append-only: every step leaves the rows already
\* persisted as they are, in their places, and adds at most one row after them,
\* so the number of rows never decreases and no persisted score is modified
C21_AssessmentsAppendOnly ==
    [][/\ Len(riskAssessments') \in {Len(riskAssessments), Len(riskAssessments) + 1}
       /\ SubSeq(riskAssessments', 1, Len(riskAssessments)) = riskAssessments]_vars

\* two ingestions of one patient have each added an assessment after the seeded one
C21_Witness ==
    /\ Len(riskAssessments) = 3
    /\ riskAssessments[1] = SeededAssessment
    /\ riskAssessments[2].patientId = 1 /\ riskAssessments[3].patientId = 1
    /\ \A r \in ReqIds : reqs[r].pc = "done" /\ reqs[r].status = 200

\* C22: a step changes the stored riskLevel of a patient only if it is the
\* updatePatient step of an ingestion request for that patient which has
\* appended its risk assessment, and it writes that request's level; nothing
\* else of the patient changes, and the steps of alert acknowledgement and
\* alert-settings upsert change no patient
C22_RiskLevelChangesOnlyAfterAssessment ==
    [][\A p \in PatientIds : patients'[p] # patients[p] =>
          \E r \in ReqIds :
              /\ reqs[r].patientId = p
              /\ reqs[r].pc = "level" /\ reqs'[r].pc = "done" /\ reqs'[r].status = 200
              /\ \E i \in 1..Len(riskAssessments) :
                    /\ riskAssessments[i] = reqs[r].assessment
                    /\ riskAssessments[i].patientId = p
              /\ patients'[p] = [patients[p] EXCEPT !.riskLevel = reqs[r].newRiskLevel]
              /\ UNCHANGED <<transactions, alerts, riskAssessments, alertSettings>>]_vars

\* the riskLevel of patient 1 is no longer the initial one, alert settings were
\* written and an alert was marked read
C22_Witness ==
    /\ patients[1].riskLevel # LowRisk
    /\ alertSettings[1].exists
    /\ alerts # <<>> /\ alerts[1].isRead
    /\ \E r \in ReqIds : reqs[r].pc = "done" /\ reqs[r].newRiskLevel = patients[1].riskLevel

\* a row without the id its table gave it
Unnumbered(row) == [f \in DOMAIN row \ {"id"} |-> row[f]]

\* what a database holds of a patient: the stored patient, and the patient's
\* transactions, alerts (each with its transaction in place of the transaction's
\* id) and risk assessments in insertion order, all without the ids, which the
\* tables hand out across patients
OfPatientIn(db, p) ==
    LET own(table) == OfPatient(table, p)
        ownAlerts == own(db.alerts)
    IN  [patient |-> db.patients[p],
         transactions |-> [i \in 1..Len(own(db.transactions)) |->
                              Unnumbered(own(db.transactions)[i])],
         alerts |-> [i \in 1..Len(ownAlerts) |->
                        [Unnumbered(ownAlerts[i]) EXCEPT
                            !.transactionId = Unnumbered(db.transactions[@])]],
         riskAssessments |-> own(db.riskAssessments)]

\* the database as it is
CurrentDb ==
    [patients |-> patients, transactions |-> transactions, alerts |-> alerts,
     riskAssessments |-> riskAssessments]

\* C23: once two ingestion requests for distinct patients have both answered,
\* whatever the interleaving of their steps, what the database holds of each
\* patient (transactions, alerts, risk assessments, riskLevel) is what it holds
\* when the two requests run one after the other, in either order
C23_DistinctPatientsAsIfSequential ==
    \A r, o \in ReqIds :
        (r < o /\ reqs[r].pc = "done" /\ reqs[o].pc = "done") =>
            LET first == reqs[r]
                second == reqs[o]
                firstThenSecond ==
                    Ingest(Ingest(SeededDb, first.patientId, first.body, now),
                           second.patientId, second.body, now)
                secondThenFirst ==
                    Ingest(Ingest(SeededDb, second.patientId, second.body, now),
                           first.patientId, first.body, now)
            IN  /\ first.patientId # second.patientId
                /\ \A p \in PatientIds :
                      /\ OfPatientIn(CurrentDb, p) = OfPatientIn(firstThenSecond, p)
                      /\ OfPatientIn(CurrentDb, p) = OfPatientIn(secondThenFirst, p)

\* both requests have answered after steps that interleaved: the request that
\* stored its transaction last created its alert first, and both patients have
\* a new risk assessment
C23_Witness ==
    \E r, o \in ReqIds :
        /\ reqs[r].pc = "done" /\ reqs[o].pc = "done"
        /\ reqs[r].patientId = 1 /\ reqs[o].patientId = 2
        /\ reqs[r].transactionId < reqs[o].transactionId
        /\ reqs[r].alertId > reqs[o].alertId /\ reqs[o].alertId > 0
        /\ Len(riskAssessments) = 3
        /\ patients[1].riskLevel # LowRisk

\* the ids of the entries of a feed
FeedIds(feed) == {feed[i].id : i \in 1..Len(feed)}

\* C24: when GET /api/activity has gathered more than 10 transactions (the 5
\* latest of each patient), no transaction it left out has a higher id than one
\* it returned
C24_ActivityReturnsMostRecent ==
    activity # <<>> =>
        LET gathered == FeedIds(gatherActivities(transactions, Cardinality(DOMAIN patients)))
            returned == FeedIds(activity[1])
        IN  Cardinality(gathered) > ActivityLimit =>
                \A omitted \in gathered \ returned, kept \in returned : omitted < kept

\* the step changes an alert that was already stored
AlertChanges(i) == i \in 1..Len(alerts) /\ alerts'[i] # alerts[i]

\* C25: a step that changes a stored alert sets the isRead of that one alert to
\* true and changes nothing else, no other alert included, so isRead never goes
\* back to false; and on every table of alerts reached, marking an alert read
\* twice gives what marking it once gives, and an alert marked read is not
\* among the unread alerts, also after it is marked again
C25_MarkReadOnlySetsIsRead ==
    /\ [][/\ Len(alerts') >= Len(alerts)
          /\ \A i \in 1..Len(alerts) :
                /\ alerts[i].isRead => alerts'[i].isRead
                /\ AlertChanges(i) =>
                      /\ alerts' = [alerts EXCEPT ![i].isRead = TRUE]
                      /\ UNCHANGED <<patients, transactions, riskAssessments,
                                     alertSettings, reqs>>]_vars
    /\ [](\A id \in 1..MaxRequests :
             LET marked == markAlertAsRead(alerts, id)
             IN  /\ markAlertAsRead(marked, id) = marked
                 /\ id \notin getUnreadAlerts(marked)
                 /\ \A i \in 1..Len(alerts) : i # id => marked[i] = alerts[i]
                 /\ (id \in 1..Len(alerts) /\ alerts[id].isRead) =>
                        marked = alerts /\ id \notin getUnreadAlerts(alerts))

\* of two alerts, the first was marked read and the second was not
C25_Witness ==
    /\ Len(alerts) = 2
    /\ alerts[1].isRead /\ ~alerts[2].isRead
    /\ getUnreadAlerts(alerts) = {2}

\* the alerts stored for a transaction
AlertsOf(transactionId) == {i \in 1..Len(alerts) : alerts[i].transactionId = transactionId}

\* C26: every stored alert references a stored transaction of its own patient
\* that is flagged anomalous with a riskScore of at least 30, and was created by
\* exactly one request, the one that persisted that transaction; a request that
\* has created an alert has persisted its transaction before, and no
\* transaction has more than one alert
C26_AlertReferencesOwnAnomalousTransaction ==
    /\ \A i \in 1..Len(alerts) :
          LET alert == alerts[i]
          IN  /\ alert.transactionId \in 1..Len(transactions)
              /\ transactions[alert.transactionId].patientId = alert.patientId
              /\ transactions[alert.transactionId].isAnomaly
              /\ transactions[alert.transactionId].riskScore >= AnomalyThreshold
              /\ Cardinality({r \in ReqIds : reqs[r].alertId = i}) = 1
              /\ \A r \in ReqIds : reqs[r].alertId = i =>
                    /\ reqs[r].transactionId = alert.transactionId
                    /\ reqs[r].patientId = alert.patientId
    /\ \A r \in ReqIds :
          /\ reqs[r].alertId # 0 =>
                reqs[r].transactionId # 0 /\ reqs[r].alertId \in 1..Len(alerts)
          /\ reqs[r].transactionId # 0 => Cardinality(AlertsOf(reqs[r].transactionId)) <= 1
          /\ reqs[r].transactionId = 0 => reqs[r].pc \in {"idle", "score", "done"}

\* two requests of one patient have each created the alert of their own
\* transaction, the later transaction having the earlier alert
C26_Witness ==
    \E r, o \in ReqIds :
        /\ reqs[r].transactionId = 2 /\ reqs[o].transactionId = 3
        /\ reqs[r].alertId = 2 /\ reqs[o].alertId = 1
        /\ alerts[1].transactionId = 3 /\ alerts[2].transactionId = 2
        /\ transactions[2].riskScore >= AnomalyThreshold
        /\ transactions[3].riskScore >= AnomalyThreshold

\* request r has answered 500 after it persisted its transaction
FailedAfterTransaction(r) == reqs[r].status = 500 /\ reqs[r].transactionId # 0

\* C27: a request that answers 500 after it persisted its anomalous transaction
\* has stopped, and its transaction, and its alert if it created one, are
\* stored; the step in which it fails writes nothing and deletes nothing, the
\* request takes no step afterwards, and no step ever removes or changes a
\* stored transaction or the fields of an alert that ingestion wrote
C27_FailureKeepsRowsAndSkipsRest ==
    /\ [](\A r \in ReqIds : FailedAfterTransaction(r) =>
             /\ reqs[r].pc = "done"
             /\ reqs[r].transactionId \in 1..Len(transactions)
             /\ transactions[reqs[r].transactionId].isAnomaly
             /\ transactions[reqs[r].transactionId] =
                   transactionRow(reqs[r].transactionId, reqs[r].patientId, reqs[r].body,
                                  reqs[r].anomalyResult)
             /\ IF reqs[r].alertId = 0 THEN AlertsOf(reqs[r].transactionId) = {}
                ELSE AlertsOf(reqs[r].transactionId) = {reqs[r].alertId})
    /\ [][\A r \in ReqIds :
             /\ (reqs'[r].status = 500 /\ reqs[r].status # 500) =>
                   UNCHANGED <<patients, transactions, alerts, riskAssessments, alertSettings>>
             /\ reqs[r].status = 500 => reqs'[r] = reqs[r]]_vars

\* two requests with anomalous transactions have answered 500, one without an
\* alert and one that had appended its assessment and did not update the
\* patient, and both transactions are stored
C27_Witness ==
    \E r, o \in ReqIds :
        /\ FailedAfterTransaction(r) /\ FailedAfterTransaction(o)
        /\ reqs[r].alertId = 0
        /\ reqs[o].alertId # 0 /\ reqs[o].newRiskLevel \notin {"", patients[1].riskLevel}
        /\ Len(transactions) = 3 /\ Len(alerts) = 1 /\ Len(riskAssessments) = 2

\* the history request r scored its transaction against holds the transaction
\* of request o
ScoredAgainst(r, o) ==
    \E i \in 1..Len(reqs[r].recentTransactions) :
        reqs[r].recentTransactions[i].id = reqs[o].transactionId

\* C28: of two ingestion requests for one patient that have both persisted
\* their transactions, at least one scored its transaction against a history
\* that holds the other's transaction
C28_OneRequestSeesTheOther ==
    \A r, o \in ReqIds :
        (/\ r # o
         /\ reqs[r].patientId = reqs[o].patientId
         /\ reqs[r].transactionId # 0 /\ reqs[o].transactionId # 0)
        => ScoredAgainst(r, o) \/ ScoredAgainst(o, r)

\* the rows of a table that carry a patient id no patient has
Orphans(table) == {i \in 1..Len(table) : table[i].patientId \notin DOMAIN patients}

\* C29: a request for a patient id that no patient has is answered 404 in the
\* step that receives it, that step and every later one of the request leave
\* the database as it is, and no transaction, alert or risk assessment is ever
\* stored for such an id
C29_MissingPatientChangesNothing ==
    /\ [](/\ \A r \in ReqIds :
               (reqs[r].pc # "idle" /\ reqs[r].patientId \notin DOMAIN patients) =>
                   /\ reqs[r].pc = "done" /\ reqs[r].status = 404
                   /\ reqs[r].transactionId = 0 /\ reqs[r].alertId = 0
                   /\ reqs[r].assessment = NoAssessment
          /\ Orphans(transactions) = {} /\ Orphans(alerts) = {}
          /\ Orphans(riskAssessments) = {})
    /\ [][\A r \in ReqIds :
             /\ (reqs'[r].status = 404 /\ reqs[r].status # 404) =>
                   UNCHANGED <<patients, transactions, alerts, riskAssessments, alertSettings>>
             /\ reqs[r].status = 404 => reqs'[r] = reqs[r]]_vars

\* a request for the missing patient was answered 404 after another request
\* had stored a transaction and an alert, and before that one finished
C29_Witness ==
    \E r, o \in ReqIds :
        /\ reqs[r].status = 404 /\ reqs[r].patientId = MissingPatientId
        /\ reqs[r].body.amount = "1200000"
        /\ reqs[o].patientId = 1 /\ reqs[o].pc = "assess"
        /\ Len(transactions) = 2 /\ Len(alerts) = 1 /\ Len(riskAssessments) = 1

\* the frequency base score assessRisk would take from all the transactions of
\* the patient's trailing week
RealFrequencyBase(patientId) ==
    frequencyBucket(Len(InWeek(OfPatient(transactions, patientId), now)))

\* C30: whatever the number of transactions the patient has in the trailing
\* week, GET /api/patients hands assessRisk at most 10 transactions and its
\* frequency base score is 15, and GET /api/patients/:id/risk-assessment hands
\* it at most 30 and its frequency base score is 15, 35 or 60, never 85; the
\* frequency factor of the profile is that base under the dementia multiplier
C30_CallersBoundFrequencyBase ==
    \A i \in 1..Len(riskViews) :
        LET view == riskViews[i]
        IN  /\ view.endpoint = "patients" =>
                  view.supplied <= ListLimit /\ view.frequencyBase = 15
            /\ view.endpoint = "risk-assessment" =>
                  /\ view.supplied <= DetailLimit
                  /\ view.frequencyBase \in {15, 35, 60}
            /\ view.riskProfile.factors.frequency =
                  adjustFactor(view.frequencyBase, patients[view.patientId].dementiaStage)

\* a patient with more than 35 transactions in the trailing week, whose
\* frequency base over all of them is 85, was given base 15 by the list and
\* base 60 by the risk-assessment endpoint
C30_Witness ==
    /\ RealFrequencyBase(1) = 85
    /\ \E i, j \in 1..Len(riskViews) :
          /\ riskViews[i].endpoint = "patients" /\ riskViews[i].frequencyBase = 15
          /\ riskViews[i].supplied = ListLimit
          /\ riskViews[j].endpoint = "risk-assessment" /\ riskViews[j].frequencyBase = 60
          /\ riskViews[j].supplied = DetailLimit
=============================================================================
